---- MODULE Spec2Model ----
(***************************************************************************)
(* Thermostat weekly-schedule model and codec of ccu_cli (schedule.py),     *)
(* the ReGa script client (rega.py) and the lifecycle of the backend       *)
(* (backend.py).                                                           *)
(*                                                                         *)
(* Conventions of the model:                                               *)
(*  - a Python str that the code only compares or concatenates (day names, *)
(*    paramset keys) is a TLA+ string; a str the code takes apart          *)
(*    character by character (time texts, day tokens) is a sequence of     *)
(*    one-character strings;                                               *)
(*  - a temperature is an integer number of tenths of a degree Celsius     *)
(*    (21.0 is 210); the code only stores and copies temperatures;         *)
(*  - a dict is a function whose DOMAIN is its key set;                    *)
(*  - a call that raises is a record [raises |-> "ValueError"], a call     *)
(*    that returns is [raises |-> "none", value |-> v].                    *)
(***************************************************************************)
EXTENDS Integers, Sequences, FiniteSets, TLC

VARIABLES
    pc,        \* position of the calling script: "start" | "ready" | "done"
    call,      \* the last call: its name, its arguments, and what it returned
               \* when the caller did not store it in schedule or params
    made,      \* the call that returned the schedule the caller holds
    schedule,  \* the WeekSchedule the caller holds, or NoSchedule
    params,    \* the paramset dictionary the caller holds
    rega,      \* the ReGaClient the caller holds: its config, its _client and
               \* the requests posted through it
    backend,   \* the CCUBackend: its _central and its _loop
    world      \* what lies outside the objects: the centrals created and the
               \* connections attempted so far, the HTTP clients opened and
               \* closed, the scripts posted, and whether start() was called
               \* since construction or the last stop() that returned

vars == <<pc, call, made, schedule, params, rega, backend, world>>

----------------------------------------------------------------------------
(* Module constants                                                        *)

WEEKDAYS ==
    <<"MONDAY", "TUESDAY", "WEDNESDAY", "THURSDAY", "FRIDAY", "SATURDAY", "SUNDAY">>

WEEKDAY_SHORT ==
    [k \in {"mon", "tue", "wed", "thu", "fri", "sat", "sun", "monday", "tuesday",
            "wednesday", "thursday", "friday", "saturday", "sunday"} |->
        CASE k \in {"mon", "monday"} -> "MONDAY"
          [] k \in {"tue", "tuesday"} -> "TUESDAY"
          [] k \in {"wed", "wednesday"} -> "WEDNESDAY"
          [] k \in {"thu", "thursday"} -> "THURSDAY"
          [] k \in {"fri", "friday"} -> "FRIDAY"
          [] k \in {"sat", "saturday"} -> "SATURDAY"
          [] k \in {"sun", "sunday"} -> "SUNDAY"]

MAX_SLOTS == 13

END_OF_DAY == 1440

\* The dataclass defaults of WeekSchedule, in tenths of a degree.
DEFAULT_COMFORT == 210

DEFAULT_LOWERING == 170

\* The weekdays as a set: `day in WEEKDAYS`.
WeekdaySet == {WEEKDAYS[i] : i \in 1..Len(WEEKDAYS)}

----------------------------------------------------------------------------
(* Python built-ins the code relies on                                     *)

Returned(v) == [raises |-> "none", value |-> v]

ValueError == [raises |-> "ValueError"]

\* dict.get(key, default)
Get(d, key, default) == IF key \in DOMAIN d THEN d[key] ELSE default

\* d[key] = value
Put(d, key, value) == (key :> value) @@ d

\* e, with v evaluated first. TLC hands operator arguments on unevaluated;
\* evaluating the accumulator of a loop at every turn keeps the evaluation of a
\* long loop shallow. Eager(v, e) = e.
Eager(v, e) == IF v = v THEN e ELSE e

\* The empty dict.
EmptyDict == [k \in {} |-> 0]

\* A character sequence as a string.
RECURSIVE Str(_)
Str(s) == IF s = <<>> THEN "" ELSE Head(s) \o Str(Tail(s))

UPPERCASE ==
    <<"A", "B", "C", "D", "E", "F", "G", "H", "I", "J", "K", "L", "M",
      "N", "O", "P", "Q", "R", "S", "T", "U", "V", "W", "X", "Y", "Z">>

LOWERCASE ==
    <<"a", "b", "c", "d", "e", "f", "g", "h", "i", "j", "k", "l", "m",
      "n", "o", "p", "q", "r", "s", "t", "u", "v", "w", "x", "y", "z">>

IndexIn(seq, c) == CHOOSE i \in 1..Len(seq) : seq[i] = c

Occurs(seq, c) == \E i \in 1..Len(seq) : seq[i] = c

\* Two letters outside ASCII, named by their code points: the dotless i
\* (U+0131) and the long s (U+017F). Both are lowercase letters; str.upper()
\* maps them to the ASCII capitals I and S, str.lower() leaves them alone.
DOTLESS_I == "U+0131"

LONG_S == "U+017F"

\* str.lower() and str.upper() on the letters of the day tokens.
lower(s) ==
    [i \in 1..Len(s) |->
        IF Occurs(UPPERCASE, s[i]) THEN LOWERCASE[IndexIn(UPPERCASE, s[i])] ELSE s[i]]

upper(s) ==
    [i \in 1..Len(s) |->
        IF Occurs(LOWERCASE, s[i]) THEN UPPERCASE[IndexIn(LOWERCASE, s[i])]
        ELSE IF s[i] = DOTLESS_I THEN "I"
        ELSE IF s[i] = LONG_S THEN "S"
        ELSE s[i]]

\* str.split(sep) for a one-character separator.
RECURSIVE SplitFrom(_, _, _, _)
SplitFrom(s, sep, parts, cur) ==
    IF s = <<>> THEN Append(parts, cur)
    ELSE IF Head(s) = sep THEN SplitFrom(Tail(s), sep, Append(parts, cur), <<>>)
    ELSE SplitFrom(Tail(s), sep, parts, Append(cur, Head(s)))

split(s, sep) == SplitFrom(s, sep, <<>>, <<>>)

DIGITS == <<"0", "1", "2", "3", "4", "5", "6", "7", "8", "9">>

IsDigit(c) == Occurs(DIGITS, c)

DigitValue(c) == IndexIn(DIGITS, c) - 1

\* The whitespace str.strip() and int() remove: blank, tab, line feed and
\* carriage return.
WHITESPACE == {" ", "\t", "\n", "\r"}

\* str.lstrip(), str.rstrip() and str.strip(); int() strips its argument the
\* same way.
RECURSIVE LStrip(_)
LStrip(s) == IF s # <<>> /\ Head(s) \in WHITESPACE THEN LStrip(Tail(s)) ELSE s

RECURSIVE RStrip(_)
RStrip(s) ==
    IF s # <<>> /\ s[Len(s)] \in WHITESPACE THEN RStrip(SubSeq(s, 1, Len(s) - 1)) ELSE s

strip(s) == RStrip(LStrip(s))

\* str.startswith(prefix)
startswith(s, prefix) == Len(s) >= Len(prefix) /\ SubSeq(s, 1, Len(prefix)) = prefix

\* None
None == [none |-> TRUE]

\* The digits of an int() literal: decimal digits, single underscores allowed
\* between two digits.
IsDigitRun(s) ==
    /\ s # <<>>
    /\ IsDigit(s[1])
    /\ IsDigit(s[Len(s)])
    /\ \A i \in 1..Len(s) : IsDigit(s[i]) \/ s[i] = "_"
    /\ \A i \in 1..(Len(s) - 1) : ~(s[i] = "_" /\ s[i + 1] = "_")

RECURSIVE DigitRunValue(_, _)
DigitRunValue(s, acc) ==
    IF s = <<>> THEN acc
    ELSE IF Head(s) = "_" THEN DigitRunValue(Tail(s), acc)
    ELSE DigitRunValue(Tail(s), acc * 10 + DigitValue(Head(s)))

\* int(text): blanks around, an optional sign, then the digits.
int(text) ==
    LET s == RStrip(LStrip(text))
        signed == s # <<>> /\ Head(s) \in {"+", "-"}
        body == IF signed THEN Tail(s) ELSE s
    IN  IF ~IsDigitRun(body) THEN ValueError
        ELSE IF signed /\ Head(s) = "-" THEN Returned(0 - DigitRunValue(body, 0))
        ELSE Returned(DigitRunValue(body, 0))

----------------------------------------------------------------------------
(* The data classes                                                        *)

TimeSlot(slot_number, end_minutes, temperature) ==
    [slot_number |-> slot_number, end_minutes |-> end_minutes,
     temperature |-> temperature]

\* Variant of is_active: slot 1 is treated like every other slot.
is_active_before_end_only(slot) == slot.end_minutes < END_OF_DAY

\* Variant of is_active: a slot that ends at END_OF_DAY is active too.
is_active_through_end(slot) == slot.end_minutes <= END_OF_DAY \/ slot.slot_number = 1

\* TimeSlot.is_active
is_active(slot) == slot.end_minutes < END_OF_DAY \/ slot.slot_number = 1

DaySchedule(day, slots) == [day |-> day, slots |-> slots]

\* Variant of ActiveFrom: stops only past END_OF_DAY (> in place of >=).
RECURSIVE ActiveFrom_strict(_, _, _)
ActiveFrom_strict(slots, i, acc) ==
    IF i > Len(slots) THEN acc
    ELSE IF slots[i].end_minutes > END_OF_DAY THEN Append(acc, slots[i])
    ELSE ActiveFrom_strict(slots, i + 1, Append(acc, slots[i]))

\* Variant of ActiveFrom: tests the boundary before including the slot.
RECURSIVE ActiveFrom_exclusive(_, _, _)
ActiveFrom_exclusive(slots, i, acc) ==
    IF i > Len(slots) THEN acc
    ELSE IF slots[i].end_minutes >= END_OF_DAY THEN acc
    ELSE ActiveFrom_exclusive(slots, i + 1, Append(acc, slots[i]))

\* The loop of DaySchedule.get_active_slots from position i on.
RECURSIVE ActiveFrom(_, _, _)
ActiveFrom(slots, i, acc) ==
    IF i > Len(slots) THEN acc
    ELSE IF slots[i].end_minutes >= END_OF_DAY THEN Append(acc, slots[i])
    ELSE ActiveFrom(slots, i + 1, Append(acc, slots[i]))

\* Variant of get_active_slots: the slots whose is_active is true.
get_active_slots_by_is_active(day_schedule) ==
    SelectSeq(day_schedule.slots, is_active)

\* Variant of get_active_slots: the loop never breaks.
get_active_slots_no_break(day_schedule) == day_schedule.slots

\* DaySchedule.get_active_slots
get_active_slots(day_schedule) == ActiveFrom(day_schedule.slots, 1, <<>>)

\* Variant of post_init: every weekday gets a DaySchedule without slots,
\* given or not.
post_init_reset(days) ==
    [d \in DOMAIN days \cup WeekdaySet |->
        IF d \in WeekdaySet THEN DaySchedule(d, <<>>) ELSE days[d]]

\* WeekSchedule.__post_init__: a DaySchedule without slots for every weekday
\* the given mapping lacks.
post_init(days) ==
    [d \in DOMAIN days \cup WeekdaySet |->
        IF d \in DOMAIN days THEN days[d] ELSE DaySchedule(d, <<>>)]

\* WeekSchedule(profile_number, days, comfort_temp, lowering_temp)
WeekSchedule(profile_number, days, comfort_temp, lowering_temp) ==
    [profile_number |-> profile_number, days |-> post_init(days),
     comfort_temp |-> comfort_temp, lowering_temp |-> lowering_temp]

----------------------------------------------------------------------------
(* Time codec                                                              *)

\* Variant of parse_time: the hour must be written with two characters.
parse_time_two_digit_hour(time_str) ==
    LET parts == split(time_str, ":")
    IN  IF Len(parts) # 2 THEN ValueError
        ELSE IF Len(parts[1]) # 2 THEN ValueError
        ELSE LET hours == int(parts[1])
                 minutes == int(parts[2])
             IN  IF hours.raises # "none" \/ minutes.raises # "none" THEN ValueError
                 ELSE IF ~(0 <= hours.value /\ hours.value <= 24)
                         \/ ~(0 <= minutes.value /\ minutes.value < 60)
                      THEN ValueError
                 ELSE IF hours.value = 24 /\ minutes.value > 0 THEN ValueError
                 ELSE Returned(hours.value * 60 + minutes.value)

\* Variant of parse_time: without the last check, of hour 24 with minutes.
parse_time_any_24(time_str) ==
    LET parts == split(time_str, ":")
    IN  IF Len(parts) # 2 THEN ValueError
        ELSE LET hours == int(parts[1])
                 minutes == int(parts[2])
             IN  IF hours.raises # "none" \/ minutes.raises # "none" THEN ValueError
                 ELSE IF ~(0 <= hours.value /\ hours.value <= 24)
                         \/ ~(0 <= minutes.value /\ minutes.value < 60)
                      THEN ValueError
                 ELSE Returned(hours.value * 60 + minutes.value)

\* parse_time(time_str)
parse_time(time_str) ==
    LET parts == split(time_str, ":")
    IN  IF Len(parts) # 2 THEN ValueError
        ELSE LET hours == int(parts[1])
                 minutes == int(parts[2])
             IN  IF hours.raises # "none" \/ minutes.raises # "none" THEN ValueError
                 ELSE IF ~(0 <= hours.value /\ hours.value <= 24)
                         \/ ~(0 <= minutes.value /\ minutes.value < 60)
                      THEN ValueError
                 ELSE IF hours.value = 24 /\ minutes.value > 0 THEN ValueError
                 ELSE Returned(hours.value * 60 + minutes.value)

\* str(n) for n >= 0, as characters.
RECURSIVE Decimal(_)
Decimal(n) ==
    IF n < 10 THEN <<DIGITS[n + 1]>>
    ELSE Append(Decimal(n \div 10), DIGITS[(n % 10) + 1])

\* f"{n:02d}" for n >= 0
TwoDigits(n) == IF n < 10 THEN <<"0">> \o Decimal(n) ELSE Decimal(n)

\* Variant of format_time: the hour wraps at 24.
format_time_wrapped(minutes) ==
    LET hours == (minutes \div 60) % 24
        mins == minutes % 60
    IN  TwoDigits(hours) \o <<":">> \o TwoDigits(mins)

\* Variant of format_time: the hour is not padded.
format_time_unpadded(minutes) ==
    LET hours == minutes \div 60
        mins == minutes % 60
    IN  Decimal(hours) \o <<":">> \o TwoDigits(mins)

\* format_time(minutes)
format_time(minutes) ==
    LET hours == minutes \div 60
        mins == minutes % 60
    IN  TwoDigits(hours) \o <<":">> \o TwoDigits(mins)

\* TimeSlot.end_time
end_time(slot) ==
    LET hours == slot.end_minutes \div 60
        minutes == slot.end_minutes % 60
    IN  TwoDigits(hours) \o <<":">> \o TwoDigits(minutes)

----------------------------------------------------------------------------
(* Paramset codec                                                          *)

\* f"P{profile}_"
Prefix(profile) == "P" \o ToString(profile) \o "_"

\* f"{prefix}ENDTIME_{day}_{slot_num}"
EndtimeKey(prefix, day, slot_num) ==
    prefix \o "ENDTIME_" \o day \o "_" \o ToString(slot_num)

\* f"{prefix}TEMPERATURE_{day}_{slot_num}"
TempKey(prefix, day, slot_num) ==
    prefix \o "TEMPERATURE_" \o day \o "_" \o ToString(slot_num)

\* Variant of ParsedSlot: a missing temperature decodes to the class default.
ParsedSlot_class_default(p, prefix, lowering_temp, day, slot_num) ==
    TimeSlot(slot_num,
             Get(p, EndtimeKey(prefix, day, slot_num), END_OF_DAY),
             Get(p, TempKey(prefix, day, slot_num), DEFAULT_LOWERING))

\* The slot parse_schedule_from_paramset appends for (day, slot_num).
ParsedSlot(p, prefix, lowering_temp, day, slot_num) ==
    TimeSlot(slot_num,
             Get(p, EndtimeKey(prefix, day, slot_num), END_OF_DAY),
             Get(p, TempKey(prefix, day, slot_num), lowering_temp))

\* Variant of ParsedSlots: a slot without an ENDTIME key is skipped.
RECURSIVE ParsedSlots_present_only(_, _, _, _, _, _)
ParsedSlots_present_only(p, prefix, lowering_temp, day, slot_num, slots) ==
    IF slot_num > MAX_SLOTS THEN slots
    ELSE LET appended ==
                IF EndtimeKey(prefix, day, slot_num) \in DOMAIN p
                THEN Append(slots, ParsedSlot(p, prefix, lowering_temp, day, slot_num))
                ELSE slots
         IN  Eager(appended,
                   ParsedSlots_present_only(p, prefix, lowering_temp, day, slot_num + 1,
                                            appended))

\* The inner loop of parse_schedule_from_paramset: slots slot_num..MAX_SLOTS
\* appended to day_schedule.slots.
RECURSIVE ParsedSlots(_, _, _, _, _, _)
ParsedSlots(p, prefix, lowering_temp, day, slot_num, slots) ==
    IF slot_num > MAX_SLOTS THEN slots
    ELSE LET appended == Append(slots, ParsedSlot(p, prefix, lowering_temp, day, slot_num))
         IN  Eager(appended,
                   ParsedSlots(p, prefix, lowering_temp, day, slot_num + 1, appended))

\* The outer loop of parse_schedule_from_paramset: schedule.days[day] is
\* assigned for the weekdays i..7.
RECURSIVE ParsedDays(_, _, _, _, _)
ParsedDays(p, prefix, lowering_temp, i, days) ==
    IF i > Len(WEEKDAYS) THEN days
    ELSE LET assigned ==
                Put(days, WEEKDAYS[i],
                    DaySchedule(WEEKDAYS[i],
                                ParsedSlots(p, prefix, lowering_temp, WEEKDAYS[i], 1, <<>>)))
         IN  Eager(assigned, ParsedDays(p, prefix, lowering_temp, i + 1, assigned))

\* Variant of parse_schedule_from_paramset: the slots are read from the profile
\* WEEK_PROGRAM_POINTER selects, when the paramset has one.
parse_schedule_from_paramset_pointed(p, profile) ==
    LET prefix == Prefix(Get(p, "WEEK_PROGRAM_POINTER", profile - 1) + 1)
        sched == WeekSchedule(profile, EmptyDict,
                              Get(p, "TEMPERATURE_COMFORT", DEFAULT_COMFORT),
                              Get(p, "TEMPERATURE_LOWERING", DEFAULT_LOWERING))
    IN  [sched EXCEPT !.days = ParsedDays(p, prefix, sched.lowering_temp, 1, sched.days)]

\* parse_schedule_from_paramset(params, profile)
parse_schedule_from_paramset(p, profile) ==
    LET prefix == Prefix(profile)
        sched == WeekSchedule(profile, EmptyDict,
                              Get(p, "TEMPERATURE_COMFORT", DEFAULT_COMFORT),
                              Get(p, "TEMPERATURE_LOWERING", DEFAULT_LOWERING))
    IN  [sched EXCEPT !.days = ParsedDays(p, prefix, sched.lowering_temp, 1, sched.days)]

\* Variant of BuiltSlot: only the end time is written.
BuiltSlot_no_temperature(p, prefix, day, slot) ==
    Put(p, EndtimeKey(prefix, day, slot.slot_number), slot.end_minutes)

\* The two assignments build_schedule_params makes for one slot.
BuiltSlot(p, prefix, day, slot) ==
    Put(Put(p, EndtimeKey(prefix, day, slot.slot_number), slot.end_minutes),
        TempKey(prefix, day, slot.slot_number), slot.temperature)

\* The inner loop of build_schedule_params over day_schedule.slots from i on.
RECURSIVE BuiltSlots(_, _, _, _, _)
BuiltSlots(p, prefix, day, slots, i) ==
    IF i > Len(slots) THEN p
    ELSE LET q == BuiltSlot(p, prefix, day, slots[i])
         IN  Eager(q, BuiltSlots(q, prefix, day, slots, i + 1))

\* The outer loop of build_schedule_params over the items of schedule.days
\* still to visit.
RECURSIVE BuiltDays(_, _, _, _)
BuiltDays(p, prefix, days, todo) ==
    IF todo = {} THEN p
    ELSE LET day == CHOOSE d \in todo : TRUE
             q == BuiltSlots(p, prefix, day, days[day].slots, 1)
         IN  Eager(q, BuiltDays(q, prefix, days, todo \ {day}))

\* Variant of build_schedule_params: the header temperatures are emitted too.
build_schedule_params_with_headers(s) ==
    Put(Put(BuiltDays(EmptyDict, Prefix(s.profile_number), s.days, DOMAIN s.days),
            "TEMPERATURE_COMFORT", s.comfort_temp),
        "TEMPERATURE_LOWERING", s.lowering_temp)

\* Variant of build_schedule_params: a header temperature that differs from
\* its default is emitted.
build_schedule_params_with_changed_headers(s) ==
    LET slots == BuiltDays(EmptyDict, Prefix(s.profile_number), s.days, DOMAIN s.days)
        comfort == IF s.comfort_temp = DEFAULT_COMFORT THEN slots
                   ELSE Put(slots, "TEMPERATURE_COMFORT", s.comfort_temp)
    IN  IF s.lowering_temp = DEFAULT_LOWERING THEN comfort
        ELSE Put(comfort, "TEMPERATURE_LOWERING", s.lowering_temp)

\* build_schedule_params(schedule)
build_schedule_params(s) ==
    BuiltDays(EmptyDict, Prefix(s.profile_number), s.days, DOMAIN s.days)

----------------------------------------------------------------------------
(* Schedule builders                                                       *)

\* The days argument of the builders: None, or a list of day tokens.
NoneDays == [is_none |-> TRUE, list |-> <<>>]

DayList(list) == [is_none |-> FALSE, list |-> list]

\* WEEKDAY_SHORT.get(d.lower(), d.upper())
TargetDay(d) == Get(WEEKDAY_SHORT, Str(lower(d)), Str(upper(d)))

\* target_days of both builders.
TargetDays(days) ==
    IF days.is_none THEN WEEKDAYS
    ELSE [i \in 1..Len(days.list) |-> TargetDay(days.list[i])]

\* `day in target_days`
IsTarget(day, target_days) == \E i \in 1..Len(target_days) : target_days[i] = day

\* for i in range(first, MAX_SLOTS + 1): slots.append(TimeSlot(i, END_OF_DAY, temp))
RECURSIVE Placeholders(_, _, _)
Placeholders(slots, first, temp) ==
    IF first > MAX_SLOTS THEN slots
    ELSE LET appended == Append(slots, TimeSlot(first, END_OF_DAY, temp))
         IN  Eager(appended, Placeholders(appended, first + 1, temp))

\* Variant of SimpleDaySlots: the two temperatures of slots 1 and 2 swapped.
SimpleDaySlots_swapped(is_target, start_minutes, end_minutes, comfort_temp, lowering_temp) ==
    IF is_target
    THEN Placeholders(<<TimeSlot(1, start_minutes, comfort_temp),
                        TimeSlot(2, end_minutes, lowering_temp),
                        TimeSlot(3, END_OF_DAY, lowering_temp)>>, 4, lowering_temp)
    ELSE Placeholders(<<>>, 1, lowering_temp)

\* Variant of SimpleDaySlots: a day that is no target gets no slots.
SimpleDaySlots_keep(is_target, start_minutes, end_minutes, comfort_temp, lowering_temp) ==
    IF is_target
    THEN Placeholders(<<TimeSlot(1, start_minutes, lowering_temp),
                        TimeSlot(2, end_minutes, comfort_temp),
                        TimeSlot(3, END_OF_DAY, lowering_temp)>>, 4, lowering_temp)
    ELSE <<>>

\* Variant of SimpleDaySlots: the two boundaries of the window are put in
\* order.
SimpleDaySlots_ordered(is_target, start_minutes, end_minutes, comfort_temp, lowering_temp) ==
    IF is_target
    THEN Placeholders(<<TimeSlot(1, IF start_minutes <= end_minutes THEN start_minutes
                                    ELSE end_minutes, lowering_temp),
                        TimeSlot(2, IF start_minutes <= end_minutes THEN end_minutes
                                    ELSE start_minutes, comfort_temp),
                        TimeSlot(3, END_OF_DAY, lowering_temp)>>, 4, lowering_temp)
    ELSE Placeholders(<<>>, 1, lowering_temp)

\* The slots create_simple_schedule gives one day.
SimpleDaySlots(is_target, start_minutes, end_minutes, comfort_temp, lowering_temp) ==
    IF is_target
    THEN Placeholders(<<TimeSlot(1, start_minutes, lowering_temp),
                        TimeSlot(2, end_minutes, comfort_temp),
                        TimeSlot(3, END_OF_DAY, lowering_temp)>>, 4, lowering_temp)
    ELSE Placeholders(<<>>, 1, lowering_temp)

\* The day loop of create_simple_schedule from weekday i on.
RECURSIVE SimpleDays(_, _, _, _, _, _, _)
SimpleDays(days, i, target_days, start_minutes, end_minutes, comfort_temp, lowering_temp) ==
    IF i > Len(WEEKDAYS) THEN days
    ELSE LET assigned ==
                Put(days, WEEKDAYS[i],
                    DaySchedule(WEEKDAYS[i],
                                SimpleDaySlots(IsTarget(WEEKDAYS[i], target_days),
                                               start_minutes, end_minutes, comfort_temp,
                                               lowering_temp)))
         IN  Eager(assigned,
                   SimpleDays(assigned, i + 1, target_days, start_minutes, end_minutes,
                              comfort_temp, lowering_temp))

\* Variant of create_simple_schedule: an inverted window is refused.
create_simple_schedule_ordered_only(profile, heat_start, heat_end, comfort_temp, lowering_temp, days) ==
    LET start_minutes == parse_time(heat_start)
        end_minutes == parse_time(heat_end)
    IN  IF start_minutes.raises # "none" \/ end_minutes.raises # "none" THEN ValueError
        ELSE IF start_minutes.value > end_minutes.value THEN ValueError
        ELSE LET sched == WeekSchedule(profile, EmptyDict, comfort_temp, lowering_temp)
             IN  Returned([sched EXCEPT !.days =
                    SimpleDays(sched.days, 1, TargetDays(days), start_minutes.value,
                               end_minutes.value, comfort_temp, lowering_temp)])

\* create_simple_schedule(profile, heat_start, heat_end, comfort_temp, lowering_temp, days)
create_simple_schedule(profile, heat_start, heat_end, comfort_temp, lowering_temp, days) ==
    LET start_minutes == parse_time(heat_start)
        end_minutes == parse_time(heat_end)
    IN  IF start_minutes.raises # "none" \/ end_minutes.raises # "none" THEN ValueError
        ELSE LET sched == WeekSchedule(profile, EmptyDict, comfort_temp, lowering_temp)
             IN  Returned([sched EXCEPT !.days =
                    SimpleDays(sched.days, 1, TargetDays(days), start_minutes.value,
                               end_minutes.value, comfort_temp, lowering_temp)])

\* Variant of ConstantDaySlots: a day that is no target is filled with the
\* class default temperature.
ConstantDaySlots_default_fill(is_target, temperature) ==
    IF is_target
    THEN Placeholders(<<TimeSlot(1, END_OF_DAY, temperature)>>, 2, temperature)
    ELSE Placeholders(<<>>, 1, DEFAULT_LOWERING)

\* The slots create_constant_schedule gives one day.
ConstantDaySlots(is_target, temperature) ==
    IF is_target
    THEN Placeholders(<<TimeSlot(1, END_OF_DAY, temperature)>>, 2, temperature)
    ELSE Placeholders(<<>>, 1, temperature)

\* The day loop of create_constant_schedule from weekday i on.
RECURSIVE ConstantDays(_, _, _, _)
ConstantDays(days, i, target_days, temperature) ==
    IF i > Len(WEEKDAYS) THEN days
    ELSE LET assigned ==
                Put(days, WEEKDAYS[i],
                    DaySchedule(WEEKDAYS[i],
                                ConstantDaySlots(IsTarget(WEEKDAYS[i], target_days),
                                                 temperature)))
         IN  Eager(assigned, ConstantDays(assigned, i + 1, target_days, temperature))

\* create_constant_schedule(profile, temperature, days)
create_constant_schedule(profile, temperature, days) ==
    LET sched == WeekSchedule(profile, EmptyDict, temperature, temperature)
    IN  [sched EXCEPT !.days = ConstantDays(sched.days, 1, TargetDays(days), temperature)]

----------------------------------------------------------------------------
(* Inputs of the calls                                                     *)

\* Profile numbers: 1, 2 or 3.
Profiles == {1, 2, 3}

\* <<comfort_temp, lowering_temp>> pairs passed to create_simple_schedule, and
\* the temperatures passed to create_constant_schedule (tenths of a degree).
TempArgs == {<<210, 170>>, <<225, 160>>}

ConstantTempArgs == {210, 225}

\* Time texts passed to create_simple_schedule: 05:00, 22:00, 24:00 and the
\* malformed 0530.
TimeArgs ==
    {<<"0", "5", ":", "0", "0">>, <<"2", "2", ":", "0", "0">>,
     <<"2", "4", ":", "0", "0">>, <<"0", "5", "3", "0">>}

\* Day selections passed to the builders: None, the working days in mixed
\* spelling, a list with an unknown token, and a list of two tokens spelled
\* with letters outside ASCII.
DayArgs ==
    {NoneDays,
     DayList(<<<<"m", "o", "n">>, <<"T", "U", "E">>, <<"W", "e", "d", "n", "e", "s", "d", "a", "y">>,
               <<"t", "h", "u">>, <<"F", "r", "i">>>>),
     DayList(<<<<"f", "o", "o">>, <<"S", "A", "T", "U", "R", "D", "A", "Y">>>>),
     DayList(<<<<"f", "r", DOTLESS_I, "d", "a", "y">>, <<LONG_S, "u", "n">>>>)}

\* Longest slot list given to a DaySchedule built by hand.
MaxGivenSlots == 2

\* <<end_minutes, temperature>> of slots built by hand: before, at and past
\* the end of the day.
GivenSlotValues == {<<360, 170>>, <<END_OF_DAY, 210>>, <<1500, 190>>}

\* Slot lists built by hand: slots numbered 1..n in list order, any values.
GivenSlotLists == UNION {[1..n -> GivenSlotValues] : n \in 0..MaxGivenSlots}

SlotsOf(given) == [i \in 1..Len(given) |-> TimeSlot(i, given[i][1], given[i][2])]

\* Weekdays given to the WeekSchedule constructor.
GivenDaySets == {{}, {"MONDAY"}, WeekdaySet}

\* A paramset as a device reports it, and the parts of it a caller may hold.
SampleParamset ==
    [k \in {"TEMPERATURE_COMFORT", "TEMPERATURE_LOWERING", "WEEK_PROGRAM_POINTER",
            "P1_ENDTIME_MONDAY_1", "P1_TEMPERATURE_MONDAY_2", "P2_ENDTIME_MONDAY_1",
            "P1_TEMPERATURE_SUNDAY_13"} |->
        CASE k = "TEMPERATURE_COMFORT" -> 225
          [] k = "TEMPERATURE_LOWERING" -> 160
          [] k = "WEEK_PROGRAM_POINTER" -> 0
          [] k = "P1_ENDTIME_MONDAY_1" -> 300
          [] k = "P1_TEMPERATURE_MONDAY_2" -> 210
          [] k = "P2_ENDTIME_MONDAY_1" -> 360
          [] k = "P1_TEMPERATURE_SUNDAY_13" -> 200]

Restrict(d, keys) == [k \in keys |-> d[k]]

GivenParamsets == {Restrict(SampleParamset, K) : K \in SUBSET DOMAIN SampleParamset}

\* Largest hour and largest minute written in the clock texts given to
\* parse_time: one past the last valid value.
MaxHour == 25

MaxMinute == 60

\* A number as a caller writes it: plain, and padded to two digits.
Written(n) == {Decimal(n), TwoDigits(n)}

\* Clock texts hour:minute, every hour and minute written plain and padded.
ClockTexts ==
    {h \o <<":">> \o m : h \in UNION {Written(n) : n \in 0..MaxHour},
                         m \in UNION {Written(n) : n \in 0..MaxMinute}}

\* Other texts given to parse_time: 0530, the empty text, 12:30:00, ab:cd,
\* 12:, :30, 12:5x, -1:00, -0:00, a leading blank, a plus sign, an underscore
\* between digits, and three-digit parts.
OddTexts ==
    {<<"0", "5", "3", "0">>,
     <<>>,
     <<"1", "2", ":", "3", "0", ":", "0", "0">>,
     <<"a", "b", ":", "c", "d">>,
     <<"1", "2", ":">>,
     <<":", "3", "0">>,
     <<"1", "2", ":", "5", "x">>,
     <<"-", "1", ":", "0", "0">>,
     <<"-", "0", ":", "0", "0">>,
     <<" ", "5", ":", "0", "0">>,
     <<"+", "5", ":", "0", "0">>,
     <<"1", "_", "0", ":", "0", "0">>,
     <<"0", "0", "5", ":", "0", "0">>,
     <<"5", ":", "0", "3", "0">>}

ParseArgs == ClockTexts \cup OddTexts

\* Minutes given to format_time: its domain.
FormatArgs == 0..END_OF_DAY

\* Slots whose properties are read: every slot number, end times before, at
\* and past the end of the day.
SlotArgs ==
    {TimeSlot(n, e, DEFAULT_LOWERING) : n \in 1..MAX_SLOTS, e \in {0, 360, 1439, END_OF_DAY, 1500}}

----------------------------------------------------------------------------
(* The calls                                                               *)

NoSchedule == [none |-> TRUE]

NoCall == [op |-> "none"]

\* The caller holds no ReGaClient.
NoReGaClient == [none |-> TRUE]

\* CCUBackend.__init__: no central, no event loop.
NewBackend == [_central |-> None, _loop |-> None]

\* Nothing has happened outside the objects yet: centrals created, starts of
\* a central attempted, ReGa clients opened and closed, requests posted, and
\* whether start() was called since construction or since the last stop().
NewWorld == [centrals |-> 0, attempts |-> 0, opened |-> 0, closed |-> 0, posted |-> <<>>,
             start_called |-> FALSE]

Init ==
    /\ pc = "start"
    /\ call = NoCall
    /\ made = NoCall
    /\ schedule = NoSchedule
    /\ params = EmptyDict
    /\ rega = NoReGaClient
    /\ backend = NewBackend
    /\ world = NewWorld

\* The caller receives a MASTER paramset dictionary.
GetParamset(p) ==
    /\ pc = "start"
    /\ UNCHANGED <<rega, backend, world>>
    /\ pc' = "ready"
    /\ params' = p
    /\ call' = [op |-> "get_paramset"]
    /\ UNCHANGED <<made, schedule>>

\* schedule = WeekSchedule(profile_number=profile, days=days). The dataclass
\* keeps the mapping it is given, so self.days and the caller's mapping are one
\* object: call.days is the mapping as it was passed, call.days_after the same
\* object when the constructor has returned.
NewWeekSchedule(profile, days) ==
    /\ pc = "start"
    /\ UNCHANGED <<rega, backend, world>>
    /\ pc' = "ready"
    /\ schedule' = WeekSchedule(profile, days, DEFAULT_COMFORT, DEFAULT_LOWERING)
    /\ call' = [op |-> "WeekSchedule", profile |-> profile, days |-> days,
                days_after |-> schedule'.days]
    /\ made' = call'
    /\ UNCHANGED params

\* schedule = create_simple_schedule(...). The days list is only iterated
\* (line 244): call.days_after, the list when the call is over, is call.days.
CreateSimpleSchedule(profile, heat_start, heat_end, comfort_temp, lowering_temp, days) ==
    /\ pc = "start"
    /\ UNCHANGED <<rega, backend, world>>
    /\ pc' = "ready"
    /\ LET r == create_simple_schedule(profile, heat_start, heat_end, comfort_temp,
                                       lowering_temp, days)
       IN  /\ call' = [op |-> "create_simple_schedule", profile |-> profile,
                       heat_start |-> heat_start, heat_end |-> heat_end,
                       comfort_temp |-> comfort_temp, lowering_temp |-> lowering_temp,
                       days |-> days, days_after |-> days, raises |-> r.raises]
           /\ IF r.raises = "none"
              THEN schedule' = r.value /\ made' = call'
              ELSE UNCHANGED <<schedule, made>>
    /\ UNCHANGED params

\* schedule = create_constant_schedule(...). The days list is only iterated
\* (line 298).
CreateConstantSchedule(profile, temperature, days) ==
    /\ pc = "start"
    /\ UNCHANGED <<rega, backend, world>>
    /\ pc' = "ready"
    /\ schedule' = create_constant_schedule(profile, temperature, days)
    /\ call' = [op |-> "create_constant_schedule", profile |-> profile,
                temperature |-> temperature, days |-> days, days_after |-> days]
    /\ made' = call'
    /\ UNCHANGED params

\* schedule = parse_schedule_from_paramset(params, profile)
ParseScheduleFromParamset(profile) ==
    /\ pc = "ready"
    /\ UNCHANGED <<rega, backend, world>>
    /\ schedule' = parse_schedule_from_paramset(params, profile)
    /\ call' = [op |-> "parse_schedule_from_paramset", profile |-> profile]
    /\ made' = call'
    /\ UNCHANGED <<pc, params>>

\* params = build_schedule_params(schedule)
BuildScheduleParams ==
    /\ pc = "ready"
    /\ UNCHANGED <<rega, backend, world>>
    /\ schedule # NoSchedule
    /\ params' = build_schedule_params(schedule)
    /\ call' = [op |-> "build_schedule_params"]
    /\ UNCHANGED <<pc, made, schedule>>

\* schedule.days[day].get_active_slots()
GetActiveSlots(day) ==
    /\ pc = "ready"
    /\ UNCHANGED <<rega, backend, world>>
    /\ schedule # NoSchedule
    /\ day \in DOMAIN schedule.days
    /\ call' = [op |-> "get_active_slots", day |-> day,
                returned |-> get_active_slots(schedule.days[day])]
    /\ pc' = "done"
    /\ UNCHANGED <<made, schedule, params>>

Next ==
    \/ \E p \in GivenParamsets : GetParamset(p)
    \/ \E profile \in Profiles, D \in GivenDaySets, given \in GivenSlotLists :
            NewWeekSchedule(profile, [d \in D |-> DaySchedule(d, SlotsOf(given))])
    \/ \E profile \in Profiles, heat_start \in TimeArgs, heat_end \in TimeArgs,
          temps \in TempArgs, days \in DayArgs :
            CreateSimpleSchedule(profile, heat_start, heat_end, temps[1], temps[2], days)
    \/ \E profile \in Profiles, temperature \in ConstantTempArgs, days \in DayArgs :
            CreateConstantSchedule(profile, temperature, days)
    \/ \E profile \in Profiles : ParseScheduleFromParamset(profile)
    \/ BuildScheduleParams
    \/ \E day \in WeekdaySet : GetActiveSlots(day)

Spec == Init /\ [][Next]_vars

\* parse_time(time_str), called on its own.
ParseTime(time_str) ==
    /\ pc = "start"
    /\ UNCHANGED <<rega, backend, world>>
    /\ pc' = "done"
    /\ call' = [op |-> "parse_time", time_str |-> time_str, returned |-> parse_time(time_str)]
    /\ UNCHANGED <<made, schedule, params>>

\* format_time(minutes), called on its own.
FormatTime(minutes) ==
    /\ pc = "start"
    /\ UNCHANGED <<rega, backend, world>>
    /\ pc' = "done"
    /\ call' = [op |-> "format_time", minutes |-> minutes, returned |-> format_time(minutes)]
    /\ UNCHANGED <<made, schedule, params>>

\* slot.end_time and slot.is_active of a TimeSlot.
ReadTimeSlot(slot) ==
    /\ pc = "start"
    /\ UNCHANGED <<rega, backend, world>>
    /\ pc' = "done"
    /\ call' = [op |-> "TimeSlot", slot |-> slot, end_time |-> end_time(slot),
                is_active |-> is_active(slot)]
    /\ UNCHANGED <<made, schedule, params>>

TimeNext ==
    \/ \E time_str \in ParseArgs : ParseTime(time_str)
    \/ \E minutes \in FormatArgs : FormatTime(minutes)
    \/ \E slot \in SlotArgs : ReadTimeSlot(slot)

\* The time codec and the slot properties, each called on its own.
TimeSpec == Init /\ [][TimeNext]_vars

----------------------------------------------------------------------------
(* ReGa script client (rega.py)                                            *)

\* ReGaClient.REGA_PORT
REGA_PORT == 8181

\* CCUConfig(host=host, https=https)
CCUConfig(host, https) == [host |-> host, https |-> https]

\* ReGaClient.base_url
base_url(config) == "http://" \o config.host \o ":" \o ToString(REGA_PORT)

\* ReGaClient.__init__
ReGaClient(config) == [config |-> config, _client |-> None]

\* ReGaClient.client: the httpx.Client, created at first use.
client(self) ==
    IF self._client = None THEN [base_url |-> base_url(self.config)] ELSE self._client

\* raise ReGaError(message)
ReGaError(message) == [raises |-> "ReGaError", message |-> message]

\* ReGaClient.execute(script): the text of the response, unless
\* raise_for_status() raises for its status.
execute(response) ==
    IF response.status >= 400 THEN [raises |-> "HTTPStatusError"]
    ELSE Returned(response.text)

ERROR_PREFIX == <<"E", "R", "R", "O", "R", ":">>

\* result.strip().split("\n")[0].strip()
first_line(result) == strip(split(strip(result), "\n")[1])

\* ... if result.strip() else ""
first_line_or_empty(result) == IF strip(result) # <<>> THEN first_line(result) ELSE <<>>

\* Variant of RaiseOnErrorLine: the error carries the whole line.
RaiseOnErrorLine_whole_line(line) ==
    IF startswith(line, ERROR_PREFIX) THEN ReGaError(line) ELSE Returned(None)

\* if first_line.startswith("ERROR:"): raise ReGaError(first_line[6:])
RaiseOnErrorLine(line) ==
    IF startswith(line, ERROR_PREFIX)
    THEN ReGaError(SubSeq(line, Len(ERROR_PREFIX) + 1, Len(line)))
    ELSE Returned(None)

\* The methods, as functions of the response to the script they post.
rename_room(response) ==
    LET result == execute(response)
    IN  IF result.raises # "none" THEN result
        ELSE RaiseOnErrorLine(first_line(result.value))

delete_room(response) ==
    LET result == execute(response)
    IN  IF result.raises # "none" THEN result
        ELSE RaiseOnErrorLine(first_line(result.value))

rename_channel(response) ==
    LET result == execute(response)
    IN  IF result.raises # "none" THEN result
        ELSE RaiseOnErrorLine(first_line(result.value))

add_device_to_room(response) ==
    LET result == execute(response)
    IN  IF result.raises # "none" THEN result
        ELSE RaiseOnErrorLine(first_line(result.value))

remove_device_from_room(response) ==
    LET result == execute(response)
    IN  IF result.raises # "none" THEN result
        ELSE RaiseOnErrorLine(first_line(result.value))

delete_program(response) ==
    LET result == execute(response)
    IN  IF result.raises # "none" THEN result
        ELSE RaiseOnErrorLine(first_line(result.value))

RoomDevice(id, name, address) == [id |-> id, name |-> name, address |-> address]

\* The line loop of list_room_devices from line i on.
RECURSIVE DevicesFrom(_, _, _)
DevicesFrom(lines, i, devices) ==
    IF i > Len(lines) THEN Returned(devices)
    ELSE LET line == strip(lines[i])
         IN  IF line = <<>> THEN DevicesFrom(lines, i + 1, devices)
             ELSE LET parts == split(line, ";")
                  IN  IF Len(parts) >= 3
                      THEN LET id == int(parts[1])
                           IN  IF id.raises # "none" THEN ValueError
                               ELSE LET added == Append(devices,
                                                        RoomDevice(id.value, parts[2], parts[3]))
                                    IN  Eager(added, DevicesFrom(lines, i + 1, added))
                      ELSE DevicesFrom(lines, i + 1, devices)

list_room_devices(response) ==
    LET result == execute(response)
    IN  IF result.raises # "none" THEN result
        ELSE LET error == RaiseOnErrorLine(first_line_or_empty(result.value))
             IN  IF error.raises # "none" THEN error
                 ELSE DevicesFrom(split(strip(result.value), "\n"), 1, <<>>)

\* The line loop of get_device_room from line i on.
RECURSIVE RoomFrom(_, _)
RoomFrom(lines, i) ==
    IF i > Len(lines) THEN Returned(None)
    ELSE LET line == strip(lines[i])
         IN  IF line # <<>> /\ ~startswith(line, ERROR_PREFIX) /\ int(line).raises = "none"
             THEN Returned(int(line).value)
             ELSE RoomFrom(lines, i + 1)

get_device_room(response) ==
    LET result == execute(response)
    IN  IF result.raises # "none" THEN result
        ELSE LET error == RaiseOnErrorLine(first_line_or_empty(result.value))
             IN  IF error.raises # "none" THEN error
                 ELSE RoomFrom(split(strip(result.value), "\n"), 1)

\* Texts the CCU answers a script with.
\* OK\n and the XML tail.
ReplyOk ==
    <<"O", "K", "\n", "<", "x", "m", "l", "/", ">">>

\* ERROR:Room not found, then the XML tail.
ReplyRoomNotFound ==
    <<"E", "R", "R", "O", "R", ":", "R", "o", "o", "m", " ", "n", "o", "t",
      " ", "f", "o", "u", "n", "d", "\n", "<", "x", "m", "l", "/", ">">>

\* An error line that ends in CR LF, after an empty line.
ReplyErrorCrLf ==
    <<"\r", "\n", "E", "R", "R", "O", "R", ":", "C", "h", "a", "n", "n", "e",
      "l", " ", "n", "o", "t", " ", "f", "o", "u", "n", "d", "\r", "\n", "<",
      "x", "m", "l", "/", ">">>

\* ERROR: on the second line only.
ReplyErrorLate ==
    <<"O", "K", "\n", "E", "R", "R", "O", "R", ":", "l", "a", "t", "e", "\n",
      "<", "x", "m", "l", "/", ">">>

\* Error: in small letters.
ReplyErrorLower ==
    <<"e", "r", "r", "o", "r", ":", "x", "\n", "<", "x", "m", "l", "/", ">">>

\* Nothing at all.
ReplyEmpty ==
    <<>>

\* Two devices.
ReplyTwoDevices ==
    <<"1", "0", "0", "1", ";", "L", "i", "g", "h", "t", ";", "A", ":", "1",
      "\n", "1", "0", "0", "2", ";", "S", "w", "i", "t", "c", "h", ";", "B",
      ":", "2", "\n", "<", "x", "m", "l", "/", ">">>

\* A line without semicolons between two devices.
ReplyMalformedLine ==
    <<"1", "0", "0", "1", ";", "L", "i", "g", "h", "t", ";", "A", ":", "1",
      "\n", "m", "a", "l", "f", "o", "r", "m", "e", "d", " ", "l", "i", "n",
      "e", "\n", "1", "0", "0", "2", ";", "S", "w", "i", "t", "c", "h", ";",
      "B", ":", "2", "\n", "<", "x", "m", "l", "/", ">">>

\* A line of two fields, then a device.
ReplyTwoFields ==
    <<"1", "0", "0", "1", ";", "L", "i", "g", "h", "t", "\n", "1", "0", "0",
      "2", ";", "S", "w", "i", "t", "c", "h", ";", "B", ":", "2", "\n", "<",
      "x", "m", "l", "/", ">">>

\* A line of three fields whose first is no integer, then a device.
ReplyBadId ==
    <<"a", "b", "c", ";", "L", "i", "g", "h", "t", ";", "A", ":", "1", "\n",
      "1", "0", "0", "2", ";", "S", "w", "i", "t", "c", "h", ";", "B", ":",
      "2", "\n", "<", "x", "m", "l", "/", ">">>

\* A room id.
ReplyRoomId ==
    <<"1", "2", "3", "4", "\n", "<", "x", "m", "l", "/", ">">>

ReplyTexts ==
    {ReplyOk, ReplyRoomNotFound, ReplyErrorCrLf, ReplyErrorLate, ReplyErrorLower,
     ReplyEmpty, ReplyTwoDevices, ReplyMalformedLine, ReplyTwoFields, ReplyBadId,
     ReplyRoomId}

\* Responses to a posted script: every text with status 200, and a status 500.
Responses ==
    {[status |-> 200, text |-> t] : t \in ReplyTexts} \cup {[status |-> 500, text |-> <<>>]}

\* rega = ReGaClient(CCUConfig(host="test-ccu", https=https))
NewReGaClient(https) ==
    /\ pc = "start"
    /\ pc' = "ready"
    /\ rega' = ReGaClient(CCUConfig("test-ccu", https))
    /\ call' = [op |-> "ReGaClient", https |-> https]
    /\ UNCHANGED <<made, schedule, params, backend, world>>

\* rega.base_url
ReadBaseUrl ==
    /\ pc = "ready"
    /\ rega # NoReGaClient
    /\ pc' = "done"
    /\ call' = [op |-> "base_url", returned |-> base_url(rega.config)]
    /\ UNCHANGED <<made, schedule, params, rega, backend, world>>

\* A method of the client posts its script through self.client, which opens
\* the httpx client at first use, and handles the response.
Posts(method, response, outcome) ==
    /\ pc = "ready"
    /\ rega # NoReGaClient
    /\ pc' = "called"
    /\ rega' = [rega EXCEPT !._client = client(rega)]
    /\ world' = [world EXCEPT !.posted = Append(@, method),
                              !.opened = IF rega._client = None THEN @ + 1 ELSE @]
    /\ call' = [op |-> method, response |-> response, returned |-> outcome]
    /\ UNCHANGED <<made, schedule, params, backend>>

\* rega.rename_room(room_id, new_name)
RenameRoom(response) == Posts("rename_room", response, rename_room(response))

\* rega.delete_room(room_id)
DeleteRoom(response) == Posts("delete_room", response, delete_room(response))

\* rega.rename_channel(channel_id, new_name)
RenameChannel(response) == Posts("rename_channel", response, rename_channel(response))

\* rega.add_device_to_room(room_id, channel_id)
AddDeviceToRoom(response) == Posts("add_device_to_room", response, add_device_to_room(response))

\* rega.remove_device_from_room(room_id, channel_id)
RemoveDeviceFromRoom(response) == Posts("remove_device_from_room", response, remove_device_from_room(response))

\* rega.list_room_devices(room_id)
ListRoomDevices(response) == Posts("list_room_devices", response, list_room_devices(response))

\* rega.get_device_room(channel_id)
GetDeviceRoom(response) == Posts("get_device_room", response, get_device_room(response))

\* rega.delete_program(program_id)
DeleteProgram(response) == Posts("delete_program", response, delete_program(response))

\* rega.close()
Close ==
    /\ pc = "called"
    /\ pc' = "done"
    /\ rega' = [rega EXCEPT !._client = None]
    /\ world' = [world EXCEPT !.closed = IF rega._client # None THEN @ + 1 ELSE @]
    /\ call' = [op |-> "close"]
    /\ UNCHANGED <<made, schedule, params, backend>>

ReGaNext ==
    \/ \E https \in BOOLEAN : NewReGaClient(https)
    \/ ReadBaseUrl
    \/ \E response \in Responses : RenameRoom(response)
    \/ \E response \in Responses : DeleteRoom(response)
    \/ \E response \in Responses : RenameChannel(response)
    \/ \E response \in Responses : AddDeviceToRoom(response)
    \/ \E response \in Responses : RemoveDeviceFromRoom(response)
    \/ \E response \in Responses : ListRoomDevices(response)
    \/ \E response \in Responses : GetDeviceRoom(response)
    \/ \E response \in Responses : DeleteProgram(response)
    \/ Close

\* A caller of the ReGa client: it makes a client, reads base_url or calls one
\* method, and closes the client.
ReGaSpec == Init /\ [][ReGaNext]_vars

----------------------------------------------------------------------------
(* Backend (backend.py)                                                    *)

\* Most centrals one backend creates, most scripts it posts.
MaxCentrals == 2

MaxPosts == 2

\* raise BackendError(...)
BackendError == [raises |-> "BackendError"]

\* CCUBackend.central
central(self) == IF self._central = None THEN BackendError ELSE Returned(self._central)

\* The event loop after _run_async: created when there was none.
LoopAfterRunAsync(self) == IF self._loop = None THEN [open |-> TRUE] ELSE self._loop

\* What the central's start() and stop() coroutines may do: complete or raise.
Outcomes == {"completes", "raises"}

\* backend.start()
Start(outcome) ==
    /\ backend._central = None => world.centrals < MaxCentrals
    /\ IF backend._central # None
       THEN /\ call' = [op |-> "start", raises |-> "none"]
            /\ world' = [world EXCEPT !.start_called = TRUE]
            /\ UNCHANGED backend
       ELSE /\ backend' = [_central |-> [id |-> world.centrals + 1],
                           _loop |-> LoopAfterRunAsync(backend)]
            /\ world' = [world EXCEPT !.centrals = @ + 1, !.attempts = @ + 1,
                                      !.start_called = TRUE]
            /\ call' = [op |-> "start",
                        raises |-> IF outcome = "raises" THEN "CentralError" ELSE "none"]
    /\ UNCHANGED <<pc, made, schedule, params, rega>>

\* backend.stop()
Stop(outcome) ==
    /\ IF backend._central # None /\ outcome = "raises"
       THEN /\ call' = [op |-> "stop", raises |-> "CentralError"]
            /\ world' = [world EXCEPT !.start_called = FALSE]
            /\ UNCHANGED backend
       ELSE /\ backend' = [_central |-> None, _loop |-> None]
            /\ world' = [world EXCEPT !.start_called = FALSE]
            /\ call' = [op |-> "stop", raises |-> "none"]
    /\ UNCHANGED <<pc, made, schedule, params, rega>>

\* backend.list_devices(): an operation that reads self.central itself.
ListDevices ==
    /\ call' = [op |-> "list_devices", raises |-> central(backend).raises]
    /\ UNCHANGED <<pc, made, schedule, params, rega, backend, world>>

\* backend.read_value(...): an operation that reads self.central inside a
\* coroutine it hands to _run_async.
ReadValue ==
    /\ backend' = [backend EXCEPT !._loop = LoopAfterRunAsync(backend)]
    /\ call' = [op |-> "read_value", raises |-> central(backend).raises]
    /\ UNCHANGED <<pc, made, schedule, params, rega, world>>

\* Program(pid=pid, name=name, ...)
Program(pid, name) == [pid |-> pid, name |-> name]

\* What get_program finds: nothing, a program with a numeric pid, a program
\* whose pid is no integer.
Lookups ==
    {None, Program(<<"4", "2">>, "Holiday"), Program(<<"a", "b", "c">>, "Broken")}

\* Variant of BackendDeleteProgram: the ReGa client stays open when the delete
\* raises.
BackendDeleteProgram_leaks_on_error(program, response) ==
    /\ Len(world.posted) < MaxPosts
    /\ LET program_id == IF program = None THEN ValueError ELSE int(program.pid)
           deleted == delete_program(response)
           outcome ==
               IF central(backend).raises # "none" THEN BackendError
               ELSE IF program = None THEN BackendError
               ELSE IF program_id.raises # "none" THEN BackendError
               ELSE IF deleted.raises = "ReGaError" THEN BackendError
               ELSE IF deleted.raises # "none" THEN deleted
               ELSE Returned(program.name)
           posts == central(backend).raises = "none" /\ program # None
                        /\ program_id.raises = "none"
       IN  /\ call' = [op |-> "backend.delete_program", program |-> program,
                       response |-> response, returned |-> outcome]
           /\ world' = IF posts
                       THEN [world EXCEPT !.posted = Append(@, "delete_program"),
                                          !.opened = @ + 1,
                                          !.closed = IF deleted.raises = "none" THEN @ + 1 ELSE @]
                       ELSE world
    /\ UNCHANGED <<pc, made, schedule, params, rega, backend>>

\* backend.delete_program(id_or_name): get_program, which reads self.central,
\* int(program.pid), and rega.delete_program inside `with ReGaClient(...)`,
\* whose __exit__ closes the client the post has opened.
BackendDeleteProgram(program, response) ==
    /\ Len(world.posted) < MaxPosts
    /\ LET program_id == IF program = None THEN ValueError ELSE int(program.pid)
           deleted == delete_program(response)
           outcome ==
               IF central(backend).raises # "none" THEN BackendError
               ELSE IF program = None THEN BackendError
               ELSE IF program_id.raises # "none" THEN BackendError
               ELSE IF deleted.raises = "ReGaError" THEN BackendError
               ELSE IF deleted.raises # "none" THEN deleted
               ELSE Returned(program.name)
           posts == central(backend).raises = "none" /\ program # None
                        /\ program_id.raises = "none"
       IN  /\ call' = [op |-> "backend.delete_program", program |-> program,
                       response |-> response, returned |-> outcome]
           /\ world' = IF posts
                       THEN [world EXCEPT !.posted = Append(@, "delete_program"),
                                          !.opened = @ + 1,
                                          !.closed = @ + 1]
                       ELSE world
    /\ UNCHANGED <<pc, made, schedule, params, rega, backend>>

BackendNext ==
    \/ \E outcome \in Outcomes : Start(outcome)
    \/ \E outcome \in Outcomes : Stop(outcome)
    \/ ListDevices
    \/ ReadValue
    \/ \E program \in Lookups, response \in Responses : BackendDeleteProgram(program, response)

\* A caller of one CCUBackend: start, stop and operations in any order.
BackendSpec == Init /\ [][BackendNext]_vars

----------------------------------------------------------------------------
(* Vocabulary of the properties                                            *)

\* The wire name of a slot parameter: P{profile}_{kind}_{DAY}_{slot}.
KeyName(profile, kind, day, n) ==
    "P" \o ToString(profile) \o "_" \o kind \o "_" \o day \o "_" \o ToString(n)

\* Every weekday of s holds 13 slots numbered 1..13.
Full13(s) ==
    \A d \in WeekdaySet :
        /\ Len(s.days[d].slots) = 13
        /\ \A i \in 1..13 : s.days[d].slots[i].slot_number = i

\* The held schedule is what the named builder or constructor returned.
MadeBy(op) == schedule # NoSchedule /\ made.op = op

\* The weekdays a builder call treats as targets.
Targets(days) == {d \in WeekdaySet : IsTarget(d, TargetDays(days))}

\* The last call was get_active_slots.
GotActive == call.op = "get_active_slots"

\* The slots of the day get_active_slots was called on.
AskedSlots == schedule.days[call.day].slots

----------------------------------------------------------------------------
(* Properties                                                              *)

\* C1: codec round-trip. When build_schedule_params has flattened a
\* WeekSchedule whose seven days each hold 13 slots numbered 1..13, decoding
\* the flattened parameters with the schedule's own profile number gives, for
\* every (day, slot_number), the same end_minutes and the same temperature.
C1_CodecRoundTrip ==
    (call.op = "build_schedule_params" /\ Full13(schedule)) =>
        LET back == parse_schedule_from_paramset(params, schedule.profile_number)
        IN  \A d \in WeekdaySet, n \in 1..13 :
                /\ back.days[d].slots[n].slot_number = n
                /\ back.days[d].slots[n].end_minutes = schedule.days[d].slots[n].end_minutes
                /\ back.days[d].slots[n].temperature = schedule.days[d].slots[n].temperature

\* A full schedule with a non-default boundary and non-default temperatures
\* has been flattened.
C1_Witness ==
    /\ call.op = "build_schedule_params"
    /\ Full13(schedule)
    /\ schedule.days["MONDAY"].slots[1].end_minutes = 300
    /\ schedule.days["MONDAY"].slots[1].temperature = 160
    /\ schedule.days["MONDAY"].slots[2].temperature = 225

\* C2: active-slot prefix law. get_active_slots() returns a prefix of the
\* day's slots, in slot_number order, that ends at and includes the first slot
\* with end_minutes >= 1440; no slot after that boundary is returned, whatever
\* it holds; without such a slot all slots are returned.
C2_ActivePrefix ==
    GotActive =>
        LET r == call.returned
        IN  /\ Len(r) <= Len(AskedSlots)
            /\ \A i \in 1..Len(r) : r[i] = AskedSlots[i]
            /\ \A i \in 1..Len(r), j \in 1..Len(r) :
                    i < j => r[i].slot_number < r[j].slot_number
            /\ \A i \in 1..(Len(r) - 1) : r[i].end_minutes < 1440
            /\ \/ Len(r) = Len(AskedSlots)
               \/ Len(r) >= 1 /\ r[Len(r)].end_minutes >= 1440

\* The scan stopped at slot 1 although slot 2 holds an earlier end time.
C2_Witness ==
    /\ GotActive
    /\ Len(AskedSlots) >= 2
    /\ AskedSlots[1].end_minutes = 1440
    /\ AskedSlots[2].end_minutes < 1440
    /\ Len(call.returned) = 1

\* C3 as stated: for any DaySchedule, including those a WeekSchedule holds
\* right after construction, get_active_slots() is never empty and contains
\* slot 1.
C3_NeverEmpty_AsStated ==
    GotActive => (Len(call.returned) >= 1 /\ call.returned[1].slot_number = 1)

\* C3 amended: get_active_slots() of a DaySchedule that holds at least one
\* slot is not empty and starts with the day's first slot, which is slot 1;
\* of a DaySchedule without slots (what a WeekSchedule holds after
\* construction for a weekday absent from the given mapping) it is empty.
C3_NeverEmptyWhenSlots ==
    GotActive =>
        /\ AskedSlots # <<>> =>
                /\ Len(call.returned) >= 1
                /\ call.returned[1] = AskedSlots[1]
                /\ call.returned[1].slot_number = 1
        /\ AskedSlots = <<>> => call.returned = <<>>

\* get_active_slots() was called on a day of a hand-built WeekSchedule that
\* holds slots, the first of them already at the end of the day.
C3_Witness ==
    /\ GotActive
    /\ made.op = "WeekSchedule"
    /\ AskedSlots # <<>>
    /\ Len(AskedSlots) >= 2
    /\ AskedSlots[1].end_minutes = 1440
    /\ call.returned = <<AskedSlots[1]>>

\* C4: whatever the params dictionary (empty, sparse or full) and the
\* profile, the decoded WeekSchedule has exactly the seven weekdays as keys,
\* each day holds exactly 13 slots, and the slot at position i has
\* slot_number i.
C4_ParseShape ==
    call.op = "parse_schedule_from_paramset" =>
        /\ DOMAIN schedule.days = WeekdaySet
        /\ \A d \in WeekdaySet :
                /\ schedule.days[d].day = d
                /\ Len(schedule.days[d].slots) = 13
                /\ \A i \in 1..13 : schedule.days[d].slots[i].slot_number = i

\* A sparse dictionary (one slot key of the profile, nothing else) was decoded.
C4_Witness ==
    /\ call.op = "parse_schedule_from_paramset"
    /\ call.profile = 1
    /\ DOMAIN params = {"P1_ENDTIME_MONDAY_1"}

\* C5: decoding never fails on a missing key. A missing ENDTIME key decodes to
\* 1440, a missing TEMPERATURE key to the decoded schedule's lowering_temp,
\* a missing TEMPERATURE_COMFORT to 21.0 and a missing TEMPERATURE_LOWERING to
\* 17.0; a key that is present is returned unchanged.
C5_ParseDefaults ==
    call.op = "parse_schedule_from_paramset" =>
        /\ schedule.profile_number = call.profile
        /\ schedule.comfort_temp =
                (IF "TEMPERATURE_COMFORT" \in DOMAIN params
                 THEN params["TEMPERATURE_COMFORT"] ELSE 210)
        /\ schedule.lowering_temp =
                (IF "TEMPERATURE_LOWERING" \in DOMAIN params
                 THEN params["TEMPERATURE_LOWERING"] ELSE 170)
        /\ \A d \in WeekdaySet, n \in 1..13 :
                LET slot == schedule.days[d].slots[n]
                    ek == KeyName(call.profile, "ENDTIME", d, n)
                    tk == KeyName(call.profile, "TEMPERATURE", d, n)
                IN  /\ slot.end_minutes = (IF ek \in DOMAIN params THEN params[ek] ELSE 1440)
                    /\ slot.temperature =
                            (IF tk \in DOMAIN params THEN params[tk]
                             ELSE schedule.lowering_temp)

\* A dictionary with TEMPERATURE_LOWERING, an end time for slot 1 and a
\* temperature for slot 2 of Monday, and no temperature for slot 1, was
\* decoded: slot 1 takes the dictionary's lowering temperature.
C5_Witness ==
    /\ call.op = "parse_schedule_from_paramset"
    /\ call.profile = 1
    /\ DOMAIN params =
            {"TEMPERATURE_LOWERING", "P1_ENDTIME_MONDAY_1", "P1_TEMPERATURE_MONDAY_2"}
    /\ schedule.days["MONDAY"].slots[1] = TimeSlot(1, 300, 160)
    /\ schedule.days["MONDAY"].slots[2] = TimeSlot(2, 1440, 210)

\* C6: build_schedule_params(s) returns a dictionary whose keys are exactly
\* the ENDTIME and TEMPERATURE names, under s.profile_number, of the (day,
\* slot_number) pairs of the slots s holds, each mapped to that slot's
\* end_minutes and temperature; there is no other key.
C6_BuildKeys ==
    call.op = "build_schedule_params" =>
        LET p == schedule.profile_number
            held == {<<d, i>> \in (DOMAIN schedule.days) \X (1..13) :
                        i <= Len(schedule.days[d].slots)}
            slotAt(h) == schedule.days[h[1]].slots[h[2]]
        IN  /\ DOMAIN params =
                    {KeyName(p, "ENDTIME", h[1], slotAt(h).slot_number) : h \in held}
                    \cup {KeyName(p, "TEMPERATURE", h[1], slotAt(h).slot_number) : h \in held}
            /\ \A h \in held :
                    /\ params[KeyName(p, "ENDTIME", h[1], slotAt(h).slot_number)]
                            = slotAt(h).end_minutes
                    /\ params[KeyName(p, "TEMPERATURE", h[1], slotAt(h).slot_number)]
                            = slotAt(h).temperature

\* A hand-built schedule that holds two slots on Monday and none on the other
\* days was flattened into four parameters.
C6_Witness ==
    /\ call.op = "build_schedule_params"
    /\ made.op = "WeekSchedule"
    /\ Len(schedule.days["MONDAY"].slots) = 2
    /\ schedule.days["TUESDAY"].slots = <<>>
    /\ Cardinality(DOMAIN params) = 4

\* C7: on every target day of create_simple_schedule the 13 slots are
\* slot 1 = (parse_time(heat_start), lowering_temp), slot 2 =
\* (parse_time(heat_end), comfort_temp), slot 3 = (1440, lowering_temp) and
\* slots 4..13 = (1440, lowering_temp), in this order.
C7_SimpleTargetDay ==
    MadeBy("create_simple_schedule") =>
        \A d \in Targets(made.days) :
            LET slots == schedule.days[d].slots
            IN  /\ Len(slots) = 13
                /\ slots[1] = TimeSlot(1, parse_time(made.heat_start).value, made.lowering_temp)
                /\ slots[2] = TimeSlot(2, parse_time(made.heat_end).value, made.comfort_temp)
                /\ \A i \in 3..13 : slots[i] = TimeSlot(i, 1440, made.lowering_temp)

\* create_simple_schedule("05:00", "22:00", 22.5, 16.0, [mon, TUE, ...])
\* has just returned.
C7_Witness ==
    /\ call.op = "create_simple_schedule"
    /\ MadeBy("create_simple_schedule")
    /\ ~made.days.is_none
    /\ "MONDAY" \in Targets(made.days)
    /\ schedule.days["MONDAY"].slots[1] = TimeSlot(1, 300, 160)
    /\ schedule.days["MONDAY"].slots[2] = TimeSlot(2, 1320, 225)

\* C8: on every weekday that is no target of create_simple_schedule all 13
\* slots are (1440, lowering_temp), and the flattened parameters of the result
\* name every slot of every weekday of the profile, so that writing them
\* overwrites the whole stored profile.
C8_SimpleOtherDays ==
    MadeBy("create_simple_schedule") =>
        /\ \A d \in WeekdaySet \ Targets(made.days) :
                /\ Len(schedule.days[d].slots) = 13
                /\ \A i \in 1..13 :
                        schedule.days[d].slots[i] = TimeSlot(i, 1440, made.lowering_temp)
        /\ call.op = "build_schedule_params" =>
                \A d \in WeekdaySet, n \in 1..13 :
                    /\ KeyName(made.profile, "ENDTIME", d, n) \in DOMAIN params
                    /\ KeyName(made.profile, "TEMPERATURE", d, n) \in DOMAIN params
                    /\ d \notin Targets(made.days) =>
                            /\ params[KeyName(made.profile, "ENDTIME", d, n)] = 1440
                            /\ params[KeyName(made.profile, "TEMPERATURE", d, n)]
                                    = made.lowering_temp

\* The result of a create_simple_schedule call that left Monday out has been
\* flattened.
C8_Witness ==
    /\ MadeBy("create_simple_schedule")
    /\ call.op = "build_schedule_params"
    /\ "MONDAY" \notin Targets(made.days)
    /\ "SATURDAY" \in Targets(made.days)
    /\ params[KeyName(made.profile, "ENDTIME", "MONDAY", 1)] = 1440

\* The three slots C9 names.
ThreeSlots ==
    <<TimeSlot(1, parse_time(made.heat_start).value, made.lowering_temp),
      TimeSlot(2, parse_time(made.heat_end).value, made.comfort_temp),
      TimeSlot(3, 1440, made.lowering_temp)>>

\* C9 as stated: for all valid heat_start and heat_end, get_active_slots() of
\* every target day of create_simple_schedule returns exactly the three slots
\* (1, parse_time(heat_start), lowering_temp), (2, parse_time(heat_end),
\* comfort_temp), (3, 1440, lowering_temp).
C9_ThreeActive_AsStated ==
    (GotActive /\ MadeBy("create_simple_schedule") /\ call.day \in Targets(made.days)) =>
        call.returned = ThreeSlots

\* C9 amended: get_active_slots() of a target day returns exactly those three
\* slots when neither heat_start nor heat_end is 24:00; it returns slot 1
\* alone when heat_start is 24:00, and slots 1 and 2 alone when only heat_end
\* is 24:00.
C9_ThreeActiveBeforeMidnight ==
    (GotActive /\ MadeBy("create_simple_schedule") /\ call.day \in Targets(made.days)) =>
        LET start == parse_time(made.heat_start).value
            end == parse_time(made.heat_end).value
        IN  call.returned =
                (IF start = 1440 THEN SubSeq(ThreeSlots, 1, 1)
                 ELSE IF end = 1440 THEN SubSeq(ThreeSlots, 1, 2)
                 ELSE ThreeSlots)

\* get_active_slots() was called on a target day of
\* create_simple_schedule("05:00", "22:00", ...) and returned three slots.
C9_Witness ==
    /\ GotActive
    /\ MadeBy("create_simple_schedule")
    /\ call.day \in Targets(made.days)
    /\ parse_time(made.heat_start).value = 300
    /\ parse_time(made.heat_end).value = 1320
    /\ Len(call.returned) = 3

DayLetters(day) ==
    CASE day = "MONDAY" -> <<"M", "O", "N", "D", "A", "Y">>
      [] day = "TUESDAY" -> <<"T", "U", "E", "S", "D", "A", "Y">>
      [] day = "WEDNESDAY" -> <<"W", "E", "D", "N", "E", "S", "D", "A", "Y">>
      [] day = "THURSDAY" -> <<"T", "H", "U", "R", "S", "D", "A", "Y">>
      [] day = "FRIDAY" -> <<"F", "R", "I", "D", "A", "Y">>
      [] day = "SATURDAY" -> <<"S", "A", "T", "U", "R", "D", "A", "Y">>
      [] day = "SUNDAY" -> <<"S", "U", "N", "D", "A", "Y">>

\* a and b are the same letter, in the same or in different case.
SameLetter(a, b) ==
    a = b \/ \E i \in 1..Len(UPPERCASE) : {a, b} = {UPPERCASE[i], LOWERCASE[i]}

\* token is name written in some letter case.
Spells(token, name) ==
    /\ Len(token) = Len(name)
    /\ \A i \in 1..Len(name) : SameLetter(token[i], name[i])

\* token is the 3-letter or the full English name of day, in any letter case.
Names(token, day) ==
    Spells(token, DayLetters(day)) \/ Spells(token, SubSeq(DayLetters(day), 1, 3))

\* The held schedule, made by create_simple_schedule, has the heating window
\* on day: its second slot carries the comfort temperature (the arguments keep
\* comfort and lowering temperature apart).
HasWindow(day) ==
    /\ Len(schedule.days[day].slots) >= 2
    /\ schedule.days[day].slots[2].temperature = made.comfort_temp

\* C11: day selection of both builders. days=None targets all seven
\* weekdays; otherwise a weekday is a target exactly when the list holds its
\* 3-letter or its full English name in any letter case; a token that is
\* neither selects no weekday; and the result has exactly the seven canonical
\* weekdays as keys.
C11_DaySelection ==
    /\ (MadeBy("create_simple_schedule") \/ MadeBy("create_constant_schedule")) =>
            /\ DOMAIN schedule.days = WeekdaySet
            /\ \A d \in WeekdaySet :
                    IsTarget(d, TargetDays(made.days)) <=>
                        \/ made.days.is_none
                        \/ \E i \in 1..Len(made.days.list) : Names(made.days.list[i], d)
    /\ MadeBy("create_simple_schedule") =>
            \A d \in WeekdaySet :
                HasWindow(d) <=>
                    \/ made.days.is_none
                    \/ \E i \in 1..Len(made.days.list) : Names(made.days.list[i], d)

\* create_simple_schedule was given the tokens "fr" + dotless i + "day" and
\* long s + "un", neither of them an English day name in any letter case, and
\* returned a schedule with the heating window on FRIDAY and on no other day.
C11_Witness ==
    /\ MadeBy("create_simple_schedule")
    /\ ~made.days.is_none
    /\ \A d \in WeekdaySet, i \in 1..Len(made.days.list) : ~Names(made.days.list[i], d)
    /\ \A d \in WeekdaySet : Str(DayLetters(d)) = d
    /\ \A d \in WeekdaySet : HasWindow(d) <=> d = "FRIDAY"

\* The last call was create_simple_schedule.
CalledSimple == call.op = "create_simple_schedule"

\* parse_time rejects the text.
Rejected(text) == parse_time(text).raises # "none"

\* C12: create_simple_schedule fails exactly when parse_time rejects
\* heat_start or heat_end; it then raises that format error and returns no
\* schedule. An inverted window and unrecognized day tokens never cause an
\* error: every other call returns a schedule of seven days with 13 slots each.
C12_SimpleFailsOnTimesOnly ==
    CalledSimple =>
        /\ call.raises \in {"none", "ValueError"}
        /\ call.raises = "ValueError" <=> (Rejected(call.heat_start) \/ Rejected(call.heat_end))
        /\ call.raises = "ValueError" => (schedule = NoSchedule /\ made = NoCall)
        /\ call.raises = "none" =>
                /\ made = call
                /\ DOMAIN schedule.days = WeekdaySet
                /\ Full13(schedule)

\* create_simple_schedule was called with a good heat_start and the text 0530
\* as heat_end: it raised the format error and the caller holds no schedule.
C12_Witness ==
    /\ CalledSimple
    /\ ~Rejected(call.heat_start)
    /\ call.heat_end = <<"0", "5", "3", "0">>
    /\ call.raises = "ValueError"
    /\ schedule = NoSchedule

\* The held schedule came from one of the two builders.
MadeByBuilder == MadeBy("create_simple_schedule") \/ MadeBy("create_constant_schedule")

\* The end_minutes of the slots never fall from one slot to the next.
NonDecreasing(slots) ==
    \A i \in 1..(Len(slots) - 1) : slots[i].end_minutes <= slots[i + 1].end_minutes

\* The held schedule was built by create_simple_schedule with heat_start
\* later than heat_end.
InvertedWindow ==
    /\ MadeBy("create_simple_schedule")
    /\ parse_time(made.heat_start).value > parse_time(made.heat_end).value

\* C13 as stated: in every WeekSchedule returned by create_simple_schedule
\* or create_constant_schedule, for any accepted arguments, the end_minutes of
\* the 13 slots of each day are non-decreasing in slot_number.
C13_NonDecreasing_AsStated ==
    MadeByBuilder => \A d \in WeekdaySet : NonDecreasing(schedule.days[d].slots)

\* C13 amended: in a WeekSchedule returned by a builder the end_minutes of
\* the 13 slots of a day are non-decreasing in slot_number, except on the
\* target days of a create_simple_schedule call whose heat_start is later than
\* its heat_end: there slot 1 ends at parse_time(heat_start), after slot 2,
\* which ends at parse_time(heat_end).
C13_NonDecreasingUnlessInverted ==
    MadeByBuilder =>
        \A d \in WeekdaySet :
            LET slots == schedule.days[d].slots
            IN  IF InvertedWindow /\ IsTarget(d, TargetDays(made.days))
                THEN /\ slots[1].end_minutes = parse_time(made.heat_start).value
                     /\ slots[2].end_minutes = parse_time(made.heat_end).value
                     /\ slots[1].end_minutes > slots[2].end_minutes
                     /\ ~NonDecreasing(slots)
                ELSE NonDecreasing(slots)

\* create_simple_schedule(heat_start = 22:00, heat_end = 05:00) returned a
\* schedule whose MONDAY runs 1320, 300, 1440, ... while its SUNDAY, not a
\* target, holds 1440 throughout.
C13_Witness ==
    /\ InvertedWindow
    /\ schedule.days["MONDAY"].slots[1].end_minutes = 1320
    /\ schedule.days["MONDAY"].slots[2].end_minutes = 300
    /\ schedule.days["MONDAY"].slots[3].end_minutes = 1440
    /\ ~IsTarget("SUNDAY", TargetDays(made.days))
    /\ NonDecreasing(schedule.days["SUNDAY"].slots)

\* The last call was parse_time, format_time.
CalledParseTime == call.op = "parse_time"

CalledFormatTime == call.op = "format_time"

\* The canonical text of hour h and minute m: both padded to two digits.
Canonical(h, m) == TwoDigits(h) \o <<":">> \o TwoDigits(m)

\* C14: time round-trip. For every integer m in 0..1440,
\* parse_time(format_time(m)) == m.
C14_TimeRoundTrip ==
    (CalledFormatTime /\ call.minutes \in 0..1440) =>
        parse_time(call.returned) = Returned(call.minutes)

\* format_time(1440) returned 24:00, which parse_time reads as 1440.
C14_Witness ==
    /\ CalledFormatTime
    /\ call.minutes = 1440
    /\ call.returned = <<"2", "4", ":", "0", "0">>
    /\ parse_time(call.returned) = Returned(1440)

\* C15: for every valid time text x in canonical form (two-digit hour
\* 00..24, two-digit minute 00..59, 24 only with minute 00),
\* format_time(parse_time(x)) == x; for a valid text with a single-digit hour
\* the result is the same time with the hour zero-padded.
C15_FormatOfParse ==
    CalledParseTime =>
        \A h \in 0..24, m \in 0..59 :
            (h = 24 => m = 0) =>
                /\ call.time_str = Canonical(h, m) =>
                        /\ call.returned.raises = "none"
                        /\ format_time(call.returned.value) = call.time_str
                /\ (h < 10 /\ \E mt \in Written(m) : call.time_str = Decimal(h) \o <<":">> \o mt) =>
                        /\ call.returned.raises = "none"
                        /\ format_time(call.returned.value) = Canonical(h, m)
                        /\ format_time(call.returned.value) # call.time_str

\* parse_time was called on 5:30 and format_time gives 05:30 for its result.
C15_Witness ==
    /\ CalledParseTime
    /\ call.time_str = <<"5", ":", "3", "0">>
    /\ call.returned = Returned(330)
    /\ format_time(call.returned.value) = <<"0", "5", ":", "3", "0">>

\* C16: parse_time returns hour*60 + minute for every text H:M with hour in
\* 0..23 and minute in 0..59, the hour written with one or two digits, and
\* returns 1440 for 24:00.
C16_ParseValue ==
    CalledParseTime =>
        /\ \A h \in 0..23, m \in 0..59 :
                \A ht \in Written(h), mt \in Written(m) :
                    call.time_str = ht \o <<":">> \o mt => call.returned = Returned(h * 60 + m)
        /\ call.time_str = <<"2", "4", ":", "0", "0">> => call.returned = Returned(1440)

\* parse_time was called on 9:30, an hour of one digit, and returned 570.
C16_Witness ==
    /\ CalledParseTime
    /\ call.time_str = <<"9", ":", "3", "0">>
    /\ call.returned = Returned(570)

\* A part of a time text is numeric when int() takes it: decimal digits,
\* possibly with blanks around, a sign in front, or single underscores between
\* digits.
Numeric(part) == int(part).raises = "none"

\* The text is one that C17 lists: not exactly two colon-delimited parts, a
\* part that is not numeric, an hour outside 0..24, a minute outside 0..59, or
\* hour 24 with a nonzero minute.
ListedAsInvalid(text) ==
    LET parts == split(text, ":")
    IN  IF Len(parts) # 2 THEN TRUE
        ELSE IF ~Numeric(parts[1]) \/ ~Numeric(parts[2]) THEN TRUE
        ELSE LET hour == int(parts[1]).value
                 minute == int(parts[2]).value
             IN  \/ hour \notin 0..24
                 \/ minute \notin 0..59
                 \/ hour = 24 /\ minute # 0

ReadSlot == call.op = "TimeSlot"

\* C18: Active-Slot Rule. TimeSlot.is_active is true exactly when
\* end_minutes < 1440 or slot_number == 1, and TimeSlot.end_time equals
\* format_time(end_minutes).
C18_ActiveSlotRule ==
    ReadSlot =>
        /\ call.is_active <=> (call.slot.end_minutes < 1440 \/ call.slot.slot_number = 1)
        /\ call.end_time = format_time(call.slot.end_minutes)

\* The properties of slot 1 at the end of the day were read: it is active
\* and its end_time is 24:00.
C18_Witness ==
    /\ ReadSlot
    /\ call.slot.slot_number = 1
    /\ call.slot.end_minutes = 1440
    /\ call.is_active
    /\ call.end_time = <<"2", "4", ":", "0", "0">>

\* The held schedule came from the codec or from a builder.
MadeByCodecOrBuilder == MadeBy("parse_schedule_from_paramset") \/ MadeByBuilder

Constructed == call.op = "WeekSchedule"

\* C20: every WeekSchedule, whatever days mapping it is constructed with
\* (none, partial or full), holds after construction a DaySchedule for each of
\* the seven weekdays; a weekday absent from the given mapping gets an empty
\* DaySchedule and a weekday present in it keeps the DaySchedule given.
C20_SevenDaysAfterConstruction ==
    Constructed =>
        /\ WeekdaySet \subseteq DOMAIN schedule.days
        /\ \A d \in WeekdaySet :
                IF d \in DOMAIN call.days
                THEN schedule.days[d] = call.days[d]
                ELSE schedule.days[d] = DaySchedule(d, <<>>)

\* A WeekSchedule was constructed with a mapping that holds MONDAY only, with
\* two slots: MONDAY keeps them and TUESDAY is an empty DaySchedule.
C20_Witness ==
    /\ Constructed
    /\ DOMAIN call.days = {"MONDAY"}
    /\ Len(call.days["MONDAY"].slots) = 2
    /\ schedule.days["MONDAY"] = call.days["MONDAY"]
    /\ schedule.days["TUESDAY"] = DaySchedule("TUESDAY", <<>>)
    /\ DOMAIN schedule.days = WeekdaySet

\* The step is a call of the named operation.
Calls(op) == call'.op = op

\* C21: the schedule operations are pure. After any sequence of calls to
\* get_active_slots, parse_schedule_from_paramset, build_schedule_params,
\* create_simple_schedule, create_constant_schedule and the WeekSchedule
\* constructor, every argument passed in (the params dictionary, the schedule,
\* the days list or days mapping) is unchanged.
C21_Pure ==
    [][/\ Calls("parse_schedule_from_paramset") => params' = params
       /\ Calls("build_schedule_params") => schedule' = schedule
       /\ Calls("get_active_slots") => schedule' = schedule
       /\ (Calls("create_simple_schedule") \/ Calls("create_constant_schedule")) =>
                call'.days_after = call'.days
       /\ Calls("WeekSchedule") => call'.days_after = call'.days]_vars

\* C21 without the constructor: every operation but the WeekSchedule
\* constructor leaves its arguments as they were, and the constructor adds to
\* the mapping it was given exactly the weekdays the mapping lacked.
C21_PureButConstructor ==
    [][/\ Calls("parse_schedule_from_paramset") => params' = params
       /\ Calls("build_schedule_params") => schedule' = schedule
       /\ Calls("get_active_slots") => schedule' = schedule
       /\ (Calls("create_simple_schedule") \/ Calls("create_constant_schedule")) =>
                call'.days_after = call'.days
       /\ Calls("WeekSchedule") =>
                /\ DOMAIN call'.days_after = DOMAIN call'.days \cup WeekdaySet
                /\ \A d \in DOMAIN call'.days : call'.days_after[d] = call'.days[d]]_vars

\* The constructor was given a mapping that holds MONDAY only; when it
\* returned, the caller's mapping held all seven weekdays.
C21_Witness ==
    /\ Constructed
    /\ DOMAIN call.days = {"MONDAY"}
    /\ DOMAIN call.days_after = WeekdaySet
    /\ call.days_after # call.days

\* The methods of the ReGa client that follow the error-line convention.
ErrorLineMethods ==
    {"rename_room", "delete_room", "rename_channel", "add_device_to_room",
     "remove_device_from_room", "list_room_devices", "get_device_room", "delete_program"}

\* The last call was one of these methods and the CCU answered it.
Answered == call.op \in ErrorLineMethods /\ call.response.status = 200

\* s up to, and without, the first c.
RECURSIVE UpTo(_, _)
UpTo(s, c) == IF s = <<>> \/ Head(s) = c THEN <<>> ELSE <<Head(s)>> \o UpTo(Tail(s), c)

\* The first line of the stripped reply.
FirstLineOfReply == UpTo(strip(call.response.text), "\n")

\* C22: ReGa error-line convention. For each of rename_room, delete_room,
\* rename_channel, add_device_to_room, remove_device_from_room,
\* list_room_devices, get_device_room and delete_program: when the first line
\* of the stripped reply starts with ERROR: the call raises ReGaError carrying
\* the text after that prefix (up to the end of the line, without trailing
\* whitespace), and when it does not the call raises no ReGaError.
C22_ErrorLine ==
    Answered =>
        IF startswith(FirstLineOfReply, ERROR_PREFIX)
        THEN call.returned =
                ReGaError(RStrip(SubSeq(FirstLineOfReply, 7, Len(FirstLineOfReply))))
        ELSE call.returned.raises # "ReGaError"

\* list_room_devices got a reply whose first line, after an empty line and
\* ended by CR LF, is ERROR:Channel not found, and raised ReGaError with the
\* text Channel not found.
C22_Witness ==
    /\ Answered
    /\ call.op = "list_room_devices"
    /\ call.response.text = ReplyErrorCrLf
    /\ call.returned.raises = "ReGaError"
    /\ Str(call.returned.message) = "Channel not found"

\* C23: ReGaClient.base_url uses the https scheme when the configuration
\* has https enabled and the http scheme otherwise, always with port 8181.
C23_BaseUrlScheme ==
    call.op = "base_url" =>
        call.returned =
            (IF rega.config.https THEN "https://" ELSE "http://") \o rega.config.host \o ":8181"

\* base_url was read from a client whose configuration has https enabled and
\* gave an http URL.
C23_Witness ==
    /\ call.op = "base_url"
    /\ rega.config.https
    /\ call.returned = "http://test-ccu:8181"

\* A reply line in the format id;name;address: at least three fields between
\* semicolons, the first of them an integer.
WellFormed(line) ==
    /\ Len(split(line, ";")) >= 3
    /\ int(split(line, ";")[1]).raises = "none"

\* One RoomDevice per well-formed line, in reply order, from line i on.
RECURSIVE WellFormedDevices(_, _)
WellFormedDevices(lines, i) ==
    IF i > Len(lines) THEN <<>>
    ELSE LET line == strip(lines[i])
             parts == split(line, ";")
         IN  IF WellFormed(line)
             THEN <<RoomDevice(int(parts[1]).value, parts[2], parts[3])>>
                    \o WellFormedDevices(lines, i + 1)
             ELSE WellFormedDevices(lines, i + 1)

\* list_room_devices was answered with a reply that is no error line.
ListedDevices ==
    /\ Answered
    /\ call.op = "list_room_devices"
    /\ ~startswith(FirstLineOfReply, ERROR_PREFIX)

\* C24: list_room_devices skips every reply line that does not have the
\* format id;name;address (fewer than three semicolon-separated fields, or a
\* first field that is not an integer) without raising, and returns one
\* RoomDevice per well-formed line in reply order.
C24_SkipsMalformedLines ==
    ListedDevices =>
        call.returned =
            Returned(WellFormedDevices(split(strip(call.response.text), "\n"), 1))

\* list_room_devices was answered abc;Light;A:1 and 1002;Switch;B:2 and
\* raised ValueError instead of returning the one well-formed device.
C24_Witness ==
    /\ ListedDevices
    /\ call.response.text = ReplyBadId
    /\ Len(WellFormedDevices(split(strip(call.response.text), "\n"), 1)) = 1
    /\ call.returned = ValueError

\* The step is an operation that needs the central.
CallsOperation == Calls("list_devices") \/ Calls("read_value")

\* C25: CCUBackend lifecycle. In any sequence of start(), stop() and
\* operations, an operation that needs the central raises BackendError exactly
\* when no start() has happened since construction or since the last stop();
\* start() on a started backend creates no second central; after stop() both
\* the central and the event loop are cleared; and stop() on a stopped backend,
\* one with neither, does nothing.
C25_Lifecycle ==
    [][/\ CallsOperation => (call'.raises = "BackendError" <=> ~world.start_called)
       /\ (Calls("start") /\ backend._central # None) =>
                /\ backend'._central = backend._central
                /\ world'.centrals = world.centrals
       /\ Calls("stop") =>
                /\ backend'._central = None
                /\ backend'._loop = None
       /\ (Calls("stop") /\ backend = NewBackend) =>
                /\ backend' = backend
                /\ call'.raises = "none"
                /\ world'.centrals = world.centrals]_vars

\* stop() raised while the central was stopping, and the backend still holds
\* the central and the open event loop.
C25_Witness ==
    /\ call.op = "stop"
    /\ call.raises = "CentralError"
    /\ ~world.start_called
    /\ backend._central = [id |-> 1]
    /\ backend._loop = [open |-> TRUE]

\* The program the backend looked up cannot be deleted: none was found, or
\* its pid is no integer.
Undeletable(program) ==
    IF program = None THEN TRUE ELSE int(program.pid).raises # "none"

\* C26: CCUBackend.delete_program looks the program up before anything is
\* deleted. When the program is not found, or its pid is not an integer, it
\* raises BackendError and sends no ReGa delete request; a ReGaError from the
\* delete is re-raised as BackendError; the program's name is returned only
\* when the delete raised nothing; the ReGa client is closed on every one of
\* these paths.
C26_DeleteProgram ==
    [][Calls("backend.delete_program") =>
        LET sent == world'.posted # world.posted
            deleted == delete_program(call'.response)
        IN  /\ Undeletable(call'.program) =>
                    /\ call'.returned = BackendError
                    /\ ~sent
            /\ sent => world'.posted = Append(world.posted, "delete_program")
            /\ (sent /\ deleted.raises = "ReGaError") => call'.returned = BackendError
            /\ call'.returned.raises = "none" =>
                    /\ sent
                    /\ deleted.raises = "none"
                    /\ call'.returned.value = call'.program.name
            /\ world'.opened = world'.closed]_vars

\* A started backend was asked to delete a program it found with a numeric
\* pid; the CCU answered ERROR:..., the call raised BackendError, and the one
\* ReGa client that was opened is closed again.
C26_Witness ==
    /\ call.op = "backend.delete_program"
    /\ backend._central # None
    /\ ~Undeletable(call.program)
    /\ call.response = [status |-> 200, text |-> ReplyRoomNotFound]
    /\ call.returned = BackendError
    /\ world.posted = <<"delete_program">>
    /\ world.opened = 1
    /\ world.closed = 1

\* C27: a CCUBackend holds a central only after a start() that completed.
\* When start() raises because the central's start failed, the backend is left
\* not started, so operations raise BackendError and a later start() attempts
\* the connection again.
C27_FailedStartNotStarted ==
    [][(call.op = "start" /\ call.raises # "none") =>
            /\ backend._central = None
            /\ CallsOperation => call'.raises = "BackendError"
            /\ Calls("start") => world'.attempts = world.attempts + 1]_vars

\* start() created its first central, the central's start raised, and the
\* backend still holds that central.
C27_Witness ==
    /\ call.op = "start"
    /\ call.raises = "CentralError"
    /\ world.attempts = 1
    /\ backend._central = [id |-> 1]

\* The keys of profile p's slots, and the keys that belong to p's schedule:
\* these and the two header temperatures.
ProfileKeys(p) ==
    {EndtimeKey(Prefix(p), d, n) : d \in WeekdaySet, n \in 1..MAX_SLOTS}
        \cup {TempKey(Prefix(p), d, n) : d \in WeekdaySet, n \in 1..MAX_SLOTS}

ScheduleKeys(p) == {"TEMPERATURE_COMFORT", "TEMPERATURE_LOWERING"} \cup ProfileKeys(p)

\* Dictionaries a and b agree on key k: both lack it, or both hold one value.
AgreeOn(a, b, k) ==
    /\ k \in DOMAIN a <=> k \in DOMAIN b
    /\ k \in DOMAIN a => a[k] = b[k]

\* a and b agree on every key of keys; a key neither holds is agreed on.
Agree(a, b, keys) == \A k \in DOMAIN a \cup DOMAIN b : k \in keys => AgreeOn(a, b, k)

\* q with another value under every key outside keys.
Elsewhere(q, keys) == [k \in DOMAIN q |-> IF k \in keys THEN q[k] ELSE q[k] + 5]

\* The dictionaries a decoded one is compared with.
OtherParamsets(keys) == GivenParamsets \cup {Elsewhere(q, keys) : q \in GivenParamsets}

\* C28: profile isolation of the decoder. For any two params dictionaries that
\* agree on TEMPERATURE_COMFORT, TEMPERATURE_LOWERING and every key prefixed
\* P{p}_, parse_schedule_from_paramset(., p) returns equal schedules; keys of
\* the other profiles, WEEK_PROGRAM_POINTER and any other key never change the
\* result.
C28_ProfileIsolation ==
    call.op = "parse_schedule_from_paramset" =>
        LET keys == ScheduleKeys(call.profile)
        IN  \A q \in OtherParamsets(keys) :
                Agree(params, q, keys) =>
                    parse_schedule_from_paramset(q, call.profile) = schedule

\* Profile 1 was decoded from a paramset that holds a slot of profile 1, a
\* slot of profile 2 and WEEK_PROGRAM_POINTER, and a dictionary without the
\* last two agrees with it on profile 1's keys.
C28_Witness ==
    /\ call.op = "parse_schedule_from_paramset"
    /\ call.profile = 1
    /\ {"P1_ENDTIME_MONDAY_1", "P2_ENDTIME_MONDAY_1", "WEEK_PROGRAM_POINTER"}
            \subseteq DOMAIN params
    /\ schedule.days["MONDAY"].slots[1].end_minutes = 300
    /\ \E q \in OtherParamsets(ScheduleKeys(1)) :
            /\ Agree(params, q, ScheduleKeys(1))
            /\ "P2_ENDTIME_MONDAY_1" \notin DOMAIN q
            /\ "WEEK_PROGRAM_POINTER" \notin DOMAIN q

HEADER_KEYS == {"TEMPERATURE_COMFORT", "TEMPERATURE_LOWERING"}

\* C29: the header temperatures do not survive the codec.
\* build_schedule_params(s) never contains TEMPERATURE_COMFORT or
\* TEMPERATURE_LOWERING, so parse_schedule_from_paramset(
\* build_schedule_params(s), s.profile_number) has comfort_temp 21.0 and
\* lowering_temp 17.0 for every s, whatever the header values of s.
C29_HeadersLost ==
    call.op = "build_schedule_params" =>
        /\ HEADER_KEYS \cap DOMAIN params = {}
        /\ LET back == parse_schedule_from_paramset(params, schedule.profile_number)
           IN  /\ back.comfort_temp = DEFAULT_COMFORT
               /\ back.lowering_temp = DEFAULT_LOWERING

\* A schedule with comfort_temp 22.5 and lowering_temp 16.0 was encoded, and
\* the encoding holds its slots.
C29_Witness ==
    /\ call.op = "build_schedule_params"
    /\ schedule.comfort_temp = 225
    /\ schedule.lowering_temp = 160
    /\ DOMAIN params # {}

\* The slots are numbered 1..n in order, with end_minutes in 0..1440 and
\* non-decreasing.
OrderedDay(slots) ==
    /\ \A i \in 1..Len(slots) :
            /\ slots[i].slot_number = i
            /\ slots[i].end_minutes \in 0..END_OF_DAY
    /\ \A i \in 1..Len(slots) - 1 : slots[i].end_minutes <= slots[i + 1].end_minutes

\* slots[i] is the first slot with end_minutes == 1440.
FirstEndOfDay(slots, i) ==
    /\ slots[i].end_minutes = END_OF_DAY
    /\ \A j \in 1..i - 1 : slots[j].end_minutes # END_OF_DAY

\* The slots of an ordered day that are active, and with them the first slot
\* that ends at 1440 when it is not slot 1; in the order of the day.
RECURSIVE ActiveAndClosing(_, _)
ActiveAndClosing(slots, i) ==
    IF i > Len(slots) THEN <<>>
    ELSE LET rest == ActiveAndClosing(slots, i + 1)
         IN  IF is_active(slots[i]) \/ (FirstEndOfDay(slots, i) /\ i # 1)
             THEN <<slots[i]>> \o rest
             ELSE rest

\* C30: for a day whose slots are numbered 1..n in order with end_minutes in
\* 0..1440 and non-decreasing, get_active_slots() equals the slots whose
\* is_active is true plus at most one more slot: the first slot with
\* end_minutes == 1440 when that slot is not slot 1.
C30_ActiveSlotsOfOrderedDay ==
    (call.op = "get_active_slots" /\ OrderedDay(schedule.days[call.day].slots)) =>
        LET slots == schedule.days[call.day].slots
            active == SelectSeq(slots, is_active)
        IN  /\ call.returned = ActiveAndClosing(slots, 1)
            /\ Len(call.returned) \in {Len(active), Len(active) + 1}

\* get_active_slots() was called on an ordered day of thirteen slots whose
\* third slot is the first to end at 1440: it returned three slots, two of
\* them active.
C30_Witness ==
    /\ call.op = "get_active_slots"
    /\ OrderedDay(schedule.days[call.day].slots)
    /\ Len(schedule.days[call.day].slots) = MAX_SLOTS
    /\ FirstEndOfDay(schedule.days[call.day].slots, 3)
    /\ Len(call.returned) = 3
    /\ Len(SelectSeq(call.returned, is_active)) = 2

====
